---- MODULE Spec2Model ----
(***************************************************************************)
(* A model of the two scripts of anthropic-image-converter:                *)
(*   src/src/anthropic_image_converter.py  (optimize a directory)          *)
(*   src/src/optimized_image_sender.py     (optimize and upload)           *)
(* Four specifications share the variables:                                *)
(*   SpecResize  the resize policy (resize_image), a pure function         *)
(*   SpecWalk    the batch walker (get_image_files) of both scripts        *)
(*   SpecDir     anthropic_image_converter.process_directory               *)
(*   Spec        one run of optimized_image_sender.main                    *)
(***************************************************************************)
EXTENDS Integers, Sequences, FiniteSets, TLC

(***************************************************************************)
(* Bounds of the model.                                                    *)
(***************************************************************************)
MaxSide == 22        \* largest source width and height drawn
MaxDim == 15         \* largest max_dimension drawn
MaxEntries == 4      \* most entries of a directory tree handed to get_image_files
MaxBatch == 3        \* most entries of the --input tree of a run of main

(***************************************************************************)
(* Python floats are IEEE 754 binary64: 53 significant bits.               *)
(***************************************************************************)
MANT_DIG == 53

VARIABLES
    width, height, max_dimension,   \* image.size and the --max-size of a resize
    new_size,                       \* the size resize_image produces
    did_resize,                     \* whether image.resize was called
    rstep                           \* "source" | "resized" | "reoptimized"

VARIABLES
    tree,        \* the entries beneath the root: a set of paths
    root,        \* the path argument: [kind, name]
    recursive,   \* the recursive flag
    files,       \* the list get_image_files returned
    wstep        \* "ready" | "converter" | "sender": which script's walker ran

VARIABLES
    input_dir,      \* process_directory's input_dir: [kind, name]
    input_tree,     \* the entries beneath input_dir
    dir_recursive,  \* process_directory's recursive
    output_format,  \* process_directory's output_format
    input_files,    \* process_directory's input_files
    file_pos,       \* position of its for loop in input_files
    output_dir,     \* the files beneath output_dir: [path, source]
    returned,       \* what optimize_image returned, per file
    converted,      \* process_directory's success_count
    dstep           \* "ready" | "loop" | "returned"

VARIABLES
    pc,               \* where main is: "start", "config", "load", "enumerate", "loop",
                      \* "optimize", "save", "send", "saveresp", "exited", "crashed"
    DEFAULT_API_KEY,  \* os.environ.get("API_KEY", ""), read when the module loads
    args,             \* what parse_args returned
    api_key,          \* main's api_key
    heap,             \* the metadata objects: 0 is main's, k the one handed to file k
    md_ref,           \* the object process_image's metadata parameter refers to
    metadata_loaded,  \* load_metadata was called
    enumerated,       \* the input path was looked at
    input_is_dir,     \* Path(args.input).is_dir()
    image_files,      \* main's image_files
    idx,              \* position of the for loop in image_files
    success_count, error_count,
    exit_code,        \* the process exit status, -1 while running
    optimized,        \* the calls of optimize_image_memory, in order: [file, ok]
    requests,         \* the POSTs issued, in order: [file, metadata, api_key]
    outcome,          \* how the endpoint answered the current file's POST
    response,         \* process_image's response, while it is live
    written,          \* the files written: [kind, name]
    verdicts          \* what process_image returned, per file

mainVars == <<pc, DEFAULT_API_KEY, args, api_key, heap, md_ref, metadata_loaded,
              enumerated, input_is_dir, image_files, idx, success_count, error_count,
              exit_code, optimized, requests, outcome, response, written, verdicts>>
resizeVars == <<width, height, max_dimension, new_size, did_resize, rstep>>
walkVars == <<tree, root, recursive, files, wstep>>
dirVars == <<input_dir, input_tree, dir_recursive, output_format, input_files,
             file_pos, output_dir, returned, converted, dstep>>
vars == <<resizeVars, walkVars, dirVars, mainVars>>

(***************************************************************************)
(* binary64 arithmetic on positive values. A float is [man, exp]: man is   *)
(* the 53 bit significand as 5 limbs, most significant first: the leading  *)
(* 1 and the 52 fraction bits in 4 limbs of 13 bits; the value is          *)
(* man * 2^exp. The operands here are small positive integers, far from    *)
(* overflow and from the subnormal range.                                  *)
(***************************************************************************)
RECURSIVE Pow2(_)
Pow2(n) == IF n = 0 THEN 1 ELSE 2 * Pow2(n - 1)

LimbBits == (MANT_DIG - 1) \div 4
Base == Pow2(LimbBits)

RECURSIVE Normalize(_, _, _)
\* n, d scaled by powers of two until 1 <= n/d < 2; k is the quotient's exponent
Normalize(n, d, k) ==
    IF n >= 2 * d THEN Normalize(n, 2 * d, k + 1)
    ELSE IF n < d THEN Normalize(2 * n, d, k - 1)
    ELSE [n |-> n, d |-> d, k |-> k]

RECURSIVE DivLimbs(_, _, _)
\* the next cnt limbs of the expansion of r/d (r < d), and the remainder
DivLimbs(r, d, cnt) ==
    IF cnt = 0 THEN [limbs |-> <<>>, rem |-> r]
    ELSE LET t == r * Base
             rest == DivLimbs(t % d, d, cnt - 1)
         IN [limbs |-> <<t \div d>> \o rest.limbs, rem |-> rest.rem]

RECURSIVE Incr(_)
\* limbs + 1, with the carry out of the most significant limb
Incr(limbs) ==
    IF limbs = <<>> THEN [limbs |-> <<>>, carry |-> 1]
    ELSE LET n == Len(limbs)
         IN IF limbs[n] + 1 < Base
            THEN [limbs |-> [limbs EXCEPT ![n] = limbs[n] + 1], carry |-> 0]
            ELSE LET r == Incr(SubSeq(limbs, 1, n - 1))
                 IN [limbs |-> Append(r.limbs, 0), carry |-> r.carry]

\* round to nearest, ties to even: rem is what lies below the kept significand,
\* in units of 1/unit of its last place
RoundUp(kept, rem, unit) ==
    \/ 2 * rem > unit
    \/ 2 * rem = unit /\ kept[Len(kept)] % 2 = 1

\* the kept significand (leading limb 1), rounded up or not; a carry out of the
\* fraction makes it 2^53 = 1.0 * 2^(exp+1), whose fraction limbs are the zeros left
RoundMan(kept, exp, up) ==
    IF ~up THEN [man |-> kept, exp |-> exp]
    ELSE LET r == Incr(SubSeq(kept, 2, Len(kept)))
         IN [man |-> <<1>> \o r.limbs, exp |-> exp + r.carry]

\* a / b for positive integers a, b: the correctly rounded quotient
FloatDiv(a, b) ==
    LET nz == Normalize(a, b, 0)
        q == DivLimbs(nz.n - nz.d, nz.d, 4)
        kept == <<1>> \o q.limbs
    IN RoundMan(kept, nz.k - (MANT_DIG - 1), RoundUp(kept, q.rem, nz.d))

RECURSIVE MulLimbs(_, _, _)
\* limbs * h + carry; the leading limb takes the overflow
MulLimbs(limbs, h, carry) ==
    LET n == Len(limbs)
        t == limbs[n] * h + carry
    IN IF n = 1 THEN <<t>>
       ELSE MulLimbs(SubSeq(limbs, 1, n - 1), h, t \div Base) \o <<t % Base>>

RECURSIVE BitLen(_)
BitLen(c) == IF c <= 1 THEN c ELSE 1 + BitLen(c \div 2)

RECURSIVE ShiftRight(_, _, _)
\* (carry, limbs) divided by div (a power of two), and the remainder
ShiftRight(limbs, div, carry) ==
    IF limbs = <<>> THEN [limbs |-> <<>>, rem |-> carry]
    ELSE LET v == carry * Base + Head(limbs)
             rest == ShiftRight(Tail(limbs), div, v % div)
         IN [limbs |-> <<v \div div>> \o rest.limbs, rem |-> rest.rem]

\* h * x for a positive integer h (exact as a float) and a float x
FloatMulInt(h, x) ==
    LET p == MulLimbs(x.man, h, 0)
        extra == BitLen(p[1]) - 1
        s == ShiftRight(p, Pow2(extra), 0)
    IN RoundMan(s.limbs, x.exp + extra, RoundUp(s.limbs, s.rem, Pow2(extra)))

RECURSIVE LimbsToInt(_)
LimbsToInt(limbs) ==
    IF limbs = <<>> THEN 0
    ELSE Base * LimbsToInt(SubSeq(limbs, 1, Len(limbs) - 1)) + limbs[Len(limbs)]

RECURSIVE TruncLimbs(_, _)
\* limbs with the low shift bits dropped, as an integer
TruncLimbs(limbs, shift) ==
    IF limbs = <<>> THEN 0
    ELSE IF shift >= LimbBits
         THEN TruncLimbs(SubSeq(limbs, 1, Len(limbs) - 1), shift - LimbBits)
         ELSE LimbsToInt(limbs) \div Pow2(shift)

\* int(x): truncation toward zero of a positive float
FloatToInt(x) ==
    IF x.exp >= 0 THEN LimbsToInt(x.man) * Pow2(x.exp)
    ELSE TruncLimbs(x.man, 0 - x.exp)

(***************************************************************************)
(* resize_image (the same text in both scripts): the size of the image it  *)
(* returns and whether it called image.resize.                             *)
(***************************************************************************)
\* a variant without the guard: scales whatever the size
resize_always(w, h, m) ==
    IF w > h
    THEN [size |-> <<m, FloatToInt(FloatMulInt(h, FloatDiv(m, w)))>>, resized |-> TRUE]
    ELSE [size |-> <<FloatToInt(FloatMulInt(w, FloatDiv(m, h))), m>>, resized |-> TRUE]

resize_image(w, h, m) ==
    IF w <= m /\ h <= m
    THEN [size |-> <<w, h>>, resized |-> FALSE]
    ELSE IF w > h
         THEN [size |-> <<m, FloatToInt(FloatMulInt(h, FloatDiv(m, w)))>>,
               resized |-> TRUE]
         ELSE [size |-> <<FloatToInt(FloatMulInt(w, FloatDiv(m, h))), m>>,
               resized |-> TRUE]

(***************************************************************************)
(* The file system get_image_files reads. A path is the sequence of its    *)
(* components below the root argument, each component a number standing    *)
(* for a name; the numbers are in the order of the names as strings, which *)
(* is the order Path.__lt__ compares components in:                        *)
(*   1 "a.jpg"  2 "b.PNG"  3 "c.txt"  4 "d.gif"  5 "e.WebP"  6 "sub"       *)
(*   9 "t.jpeg" 10 "t.png"                                                 *)
(*   7 "r.JPEG" 8 "r.txt"  (names of a root argument that is a file)       *)
(* The root argument itself, when it is a file, is the path <<its name>>.  *)
(***************************************************************************)
Suffix(name) ==
    CASE name = 1 -> ".jpg"
      [] name = 2 -> ".PNG"
      [] name = 3 -> ".txt"
      [] name = 4 -> ".gif"
      [] name = 5 -> ".WebP"
      [] name = 6 -> ""
      [] name = 7 -> ".JPEG"
      [] name = 8 -> ".txt"
      [] name = 9 -> ".jpeg"
      [] name = 10 -> ".png"

\* str.lower() on the suffixes above
Lower(str) ==
    CASE str = ".PNG" -> ".png"
      [] str = ".WebP" -> ".webp"
      [] str = ".JPEG" -> ".jpeg"
      [] OTHER -> str

\* "d.gif" and "sub" are directories, every other entry a regular file
DirPaths == {<<4>>, <<6>>}
Universe == {<<1>>, <<2>>, <<3>>, <<4>>, <<4, 2>>, <<6>>, <<6, 1>>, <<6, 5>>}

\* the trees over a universe: every entry's parent directory is an entry
Trees(universe, most) ==
    {t \in SUBSET universe :
        /\ Cardinality(t) <= most
        /\ \A p \in t : Len(p) > 1 => SubSeq(p, 1, Len(p) - 1) \in t}

Roots ==
    {[kind |-> "missing", name |-> 6], [kind |-> "dir", name |-> 6],
     [kind |-> "file", name |-> 7], [kind |-> "file", name |-> 8]}

\* Path.is_file() of an entry of the tree
is_file(p) == p \notin DirPaths

\* Path.suffix of a path: that of its last component
path_suffix(p) == Suffix(p[Len(p)])

\* the orders in which the operating system may list a set of entries
Listings(entries) ==
    {o \in [1..Cardinality(entries) -> entries] :
        \A i, j \in 1..Cardinality(entries) : o[i] = o[j] => i = j}

RECURSIVE PathLess(_, _)
\* Path.__lt__: the component lists compared lexicographically
PathLess(p, q) ==
    IF p = <<>> THEN q # <<>>
    ELSE IF q = <<>> THEN FALSE
    ELSE IF Head(p) # Head(q) THEN Head(p) < Head(q)
    ELSE PathLess(Tail(p), Tail(q))

RECURSIVE InsertSorted(_, _)
InsertSorted(x, s) ==
    IF s = <<>> THEN <<x>>
    ELSE IF PathLess(x, Head(s)) THEN <<x>> \o s
    ELSE <<Head(s)>> \o InsertSorted(x, Tail(s))

RECURSIVE sorted_from(_, _)
sorted_from(acc, s) ==
    IF s = <<>> THEN acc ELSE sorted_from(InsertSorted(Head(s), acc), Tail(s))

\* a variant that leaves the listing order
unsorted(s) == s

\* sorted(files): a stable sort into ascending order
sorted(s) == sorted_from(<<>>, s)

SUPPORTED_EXTENSIONS == {".jpg", ".jpeg", ".png", ".gif", ".webp"}

\* path.is_file() and path.suffix.lower() in SUPPORTED_EXTENSIONS
supported(p) == is_file(p) /\ Lower(path_suffix(p)) \in SUPPORTED_EXTENSIONS

\* directory_path.iterdir() and directory_path.rglob('*') as sets
iterdir(t) == {p \in t : Len(p) = 1}
rglob(t) == t
listed(t, rec) == IF rec THEN rglob(t) ELSE iterdir(t)

\* anthropic_image_converter.get_image_files; order is the listing's order
get_image_files_converter(r, order) ==
    IF r.kind # "dir" THEN <<>>
    ELSE sorted(SelectSeq(order, supported))

\* optimized_image_sender.get_image_files
get_image_files(r, order) ==
    IF r.kind = "missing" THEN <<>>
    ELSE IF r.kind # "dir"
         THEN IF Lower(Suffix(r.name)) \in SUPPORTED_EXTENSIONS
              THEN <<(<<r.name>>)>>
              ELSE <<>>
    ELSE sorted(SelectSeq(order, supported))

(***************************************************************************)
(* SpecResize: a source image of any size within the bounds is resized,    *)
(* and the output, when it is an image, is optimized again.                *)
(***************************************************************************)
(***************************************************************************)
(* Values of optimized_image_sender. A JSON value is [t, n]: its type and  *)
(* what decides its truth in Python: the number of members of an object or *)
(* a list, the length of a string, the number itself, 1 or 0 for true or   *)
(* false. json null is Python's None.                                      *)
(***************************************************************************)
None == [t |-> "null", n |-> 0]
Invalid == [t |-> "invalid", n |-> 0]    \* a body that is not JSON
Raised == [t |-> "raised", n |-> 0]      \* no value: an exception leaves the call
JsonBodies ==
    {[t |-> "object", n |-> 1], [t |-> "object", n |-> 0], [t |-> "list", n |-> 0],
     [t |-> "bool", n |-> 0], [t |-> "number", n |-> 0], None}

\* what can come of requests.post: an answer [status, body], or an exception (status 0)
Outcomes ==
    {[status |-> 200, body |-> b] : b \in JsonBodies \cup {Invalid}}
    \cup {[status |-> st, body |-> Invalid] : st \in {401, 403, 500}}
    \cup {[status |-> 0, body |-> Invalid]}
NoOutcome == [status |-> -1, body |-> Invalid]

\* bool(v) of a Python value
Truthy(v) == v.t # "null" /\ v.n # 0

\* a or b on strings
str_or(a, b) == IF a # "" THEN a ELSE b

\* dictionaries are functions from keys to values; d.update(e)
EmptyDict == [k \in {} |-> None]
dict_update(d, e) == [k \in DOMAIN d \cup DOMAIN e |-> IF k \in DOMAIN e THEN e[k] ELSE d[k]]

\* a metadata value: where it comes from, the file it is derived from, its text
Value(src, of, text) == [src |-> src, of |-> of, text |-> text]
CallerValue == Value("caller", <<>>, "")

\* the --metadata files: [given, readable, json]; json is a dictionary [t |-> "dict", d]
\* or something else
Dict(d) == [t |-> "dict", d |-> d]
NotADict == [t |-> "list", d |-> EmptyDict]
CallerDicts ==
    {EmptyDict, [tag |-> CallerValue], [tag |-> CallerValue, filename |-> CallerValue]}
MetadataFiles ==
    {[given |-> FALSE, readable |-> FALSE, json |-> Dict(EmptyDict)],
     [given |-> TRUE, readable |-> FALSE, json |-> Dict(EmptyDict)],
     [given |-> TRUE, readable |-> TRUE, json |-> NotADict]}
    \cup {[given |-> TRUE, readable |-> TRUE, json |-> Dict(d)] : d \in CallerDicts}

\* load_metadata: {} without a file or when it cannot be read, else json.load's value
load_metadata(f) ==
    IF ~f.given THEN Dict(EmptyDict)
    ELSE IF f.readable THEN f.json
    ELSE Dict(EmptyDict)

\* Path.stem of a name, and suffix.lstrip('.').lower()
Stem(name) ==
    CASE name = 1 -> "a" [] name = 2 -> "b" [] name = 3 -> "c" [] name = 4 -> "d"
      [] name = 5 -> "e" [] name = 6 -> "sub" [] name = 7 -> "r" [] name = 8 -> "r"
      [] name = 9 -> "t" [] name = 10 -> "t"
LStripDot(str) ==
    CASE str = ".jpg" -> "jpg" [] str = ".PNG" -> "PNG" [] str = ".txt" -> "txt"
      [] str = ".gif" -> "gif" [] str = ".WebP" -> "WebP" [] str = ".JPEG" -> "JPEG"
      [] str = ".jpeg" -> "jpeg" [] str = ".png" -> "png"
      [] OTHER -> str
LowerWord(str) ==
    CASE str = "PNG" -> "png" [] str = "WebP" -> "webp" [] str = "JPEG" -> "jpeg"
      [] OTHER -> str
file_name(p) == p[Len(p)]

\* the trees main's --input may name
MainUniverse == {<<1>>, <<2>>, <<3>>, <<5>>, <<6>>, <<6, 1>>}

\* metadata.copy() in main's call of process_image for file k: a new object
\* (a variant hands over main's own object)
shared_metadata(k) == 0
metadata_copy(k) == k

\* if not api_key
\* (a variant never ends the run)
key_check_skipped(key) == FALSE
key_missing(key) == key = ""

\* send_to_api's return value: response.json() on 200, None on any other status,
\* on an exception of requests.post and on a body json() cannot parse
\* (a variant without the except clause lets the exception of requests.post out)
send_to_api_uncaught(o) ==
    IF o.status = 0 THEN Raised
    ELSE IF o.status = 200 /\ o.body # Invalid THEN o.body ELSE None
send_to_api(o) ==
    IF o.status = 200 /\ o.body # Invalid THEN o.body ELSE None

\* process_image after send_to_api: if not response: return False
upload_ok(resp) == Truthy(resp)

\* save_optimized_image's return value: the path written, None when the write failed
saved_path(ok, p) ==
    IF ok THEN [kind |-> "optimized", name |-> Stem(file_name(p))] ELSE None

\* process_image's return value once the response is there; save_api_response's
\* own return value is not looked at
\* (a variant returns it)
verdict_needs_save(save_ok) == save_ok
verdict_after_save(save_ok) == TRUE

\* the path the response of file p goes to
response_path(arg, p) ==
    IF arg = "dir" THEN [kind |-> "response", name |-> Stem(file_name(p))]
    ELSE [kind |-> "response", name |-> arg]

\* main's exit status after the loop: sys.exit(1) if error_count > 0
\* (a variant ends with 0 whatever failed)
exit_always_zero(errors) == 0
exit_status(errors) == IF errors > 0 THEN 1 ELSE 0

\* the variables of the other specifications, at rest
ResizeIdle ==
    /\ width = 1 /\ height = 1 /\ max_dimension = 1
    /\ new_size = <<0, 0>> /\ did_resize = FALSE /\ rstep = "idle"

WalkIdle ==
    /\ tree = {} /\ root = [kind |-> "missing", name |-> 6]
    /\ recursive = FALSE /\ files = <<>> /\ wstep = "idle"

DirIdle ==
    /\ input_dir = [kind |-> "missing", name |-> 6] /\ input_tree = {}
    /\ dir_recursive = FALSE /\ output_format = "jpg" /\ input_files = <<>>
    /\ file_pos = 1 /\ output_dir = {} /\ returned = <<>> /\ converted = 0
    /\ dstep = "idle"

MainIdle ==
    /\ pc = "idle" /\ DEFAULT_API_KEY = ""
    /\ args = [api_key |-> "", save_optimized |-> FALSE, save_response |-> "",
               include_base64 |-> FALSE]
    /\ api_key = "" /\ heap = [o \in {0} |-> Dict(EmptyDict)] /\ md_ref = 0
    /\ metadata_loaded = FALSE /\ enumerated = FALSE /\ input_is_dir = FALSE
    /\ image_files = <<>> /\ idx = 1 /\ success_count = 0 /\ error_count = 0
    /\ exit_code = -1 /\ optimized = <<>> /\ requests = <<>> /\ outcome = NoOutcome
    /\ response = None /\ written = {} /\ verdicts = <<>>

InitResize ==
    /\ width \in 1..MaxSide
    /\ height \in 1..MaxSide
    /\ max_dimension \in 1..MaxDim
    /\ new_size = <<0, 0>>
    /\ did_resize = FALSE
    /\ rstep = "source"
    /\ WalkIdle
    /\ DirIdle
    /\ MainIdle

Resize ==
    /\ rstep = "source"
    /\ LET r == resize_image(width, height, max_dimension)
       IN /\ new_size' = r.size
          /\ did_resize' = r.resized
    /\ rstep' = "resized"
    /\ UNCHANGED <<width, height, max_dimension>>
    /\ UNCHANGED <<walkVars, dirVars, mainVars>>

\* the output of the first run is the source of the second, same settings
Reoptimize ==
    /\ rstep = "resized"
    /\ new_size[1] >= 1 /\ new_size[2] >= 1
    /\ width' = new_size[1]
    /\ height' = new_size[2]
    /\ LET r == resize_image(new_size[1], new_size[2], max_dimension)
       IN /\ new_size' = r.size
          /\ did_resize' = r.resized
    /\ rstep' = "reoptimized"
    /\ UNCHANGED max_dimension
    /\ UNCHANGED <<walkVars, dirVars, mainVars>>

NextResize == Resize \/ Reoptimize

SpecResize == InitResize /\ [][NextResize]_vars

(***************************************************************************)
(* SpecWalk: get_image_files of either script on any root argument, any    *)
(* tree within the bounds and either value of the recursive flag; the      *)
(* operating system lists the entries in any order.                        *)
(***************************************************************************)
InitWalk ==
    /\ root \in Roots
    /\ tree \in Trees(Universe, MaxEntries)
    /\ root.kind # "dir" => tree = {}
    /\ recursive \in BOOLEAN
    /\ files = <<>>
    /\ wstep = "ready"
    /\ ResizeIdle
    /\ DirIdle
    /\ MainIdle

WalkConverter ==
    /\ wstep = "ready"
    /\ \E order \in Listings(listed(tree, recursive)) :
           files' = get_image_files_converter(root, order)
    /\ wstep' = "converter"
    /\ UNCHANGED <<tree, root, recursive>>
    /\ UNCHANGED <<resizeVars, dirVars, mainVars>>

WalkSender ==
    /\ wstep = "ready"
    /\ \E order \in Listings(listed(tree, recursive)) :
           files' = get_image_files(root, order)
    /\ wstep' = "sender"
    /\ UNCHANGED <<tree, root, recursive>>
    /\ UNCHANGED <<resizeVars, dirVars, mainVars>>

NextWalk == WalkConverter \/ WalkSender

SpecWalk == InitWalk /\ [][NextWalk]_vars

(***************************************************************************)
(* SpecDir: anthropic_image_converter.process_directory on any input       *)
(* directory within the bounds, each output format and either value of the *)
(* recursive flag. The environment decides whether optimize_image succeeds *)
(* on a file and, when it fails, whether the failure came after the save.  *)
(***************************************************************************)
DirUniverse == {<<1>>, <<2>>, <<3>>, <<6>>, <<6, 1>>, <<6, 9>>, <<9>>, <<10>>}
Formats == {"jpg", "png", "webp"}

\* PurePath.with_suffix on a name: the stem is kept, the suffix replaced
with_suffix(name, suffix) == [stem |-> Stem(name), suffix |-> suffix]

\* Path(output_dir) / rel_path.with_suffix(f'.{output_format.lower()}'),
\* relative to output_dir. The files get_image_files returns are beneath
\* input_dir, and a path of the model is the path relative to it: rel_path
\* is input_file.relative_to(input_dir)
output_file(p, fmt) ==
    LET rel_path == p
    IN [parent |-> SubSeq(rel_path, 1, Len(rel_path) - 1),
        name |-> with_suffix(file_name(rel_path), fmt)]

\* resized_img.save(output_path, ...): the file at the path is replaced
save(dir, path, source) ==
    {f \in dir : f.path # path} \cup {[path |-> path, source |-> source]}

InitDir ==
    /\ input_dir \in Roots
    /\ input_tree \in Trees(DirUniverse, MaxEntries)
    /\ input_dir.kind # "dir" => input_tree = {}
    /\ dir_recursive \in BOOLEAN
    /\ output_format \in Formats
    /\ input_files = <<>>
    /\ file_pos = 1
    /\ output_dir = {}
    /\ returned = <<>>
    /\ converted = 0
    /\ dstep = "ready"
    /\ ResizeIdle
    /\ WalkIdle
    /\ MainIdle

\* lines 136-144: the files are listed; none: return 0
ListDirectory ==
    /\ dstep = "ready"
    /\ \E order \in Listings(listed(input_tree, dir_recursive)) :
           input_files' = get_image_files_converter(input_dir, order)
    /\ dstep' = IF input_files' = <<>> THEN "returned" ELSE "loop"
    /\ UNCHANGED <<input_dir, input_tree, dir_recursive, output_format, file_pos,
                   output_dir, returned, converted>>
    /\ UNCHANGED <<resizeVars, walkVars, mainVars>>

\* lines 145-151: one pass of the loop. optimize_image returns True after it
\* saved, and False from its except clause, before or after the save
ConvertFile ==
    /\ dstep = "loop"
    /\ file_pos <= Len(input_files)
    /\ LET input_file == input_files[file_pos]
           path == output_file(input_file, output_format)
       IN \E ok \in BOOLEAN, saved \in BOOLEAN :
             /\ ok => saved
             /\ output_dir' = IF saved THEN save(output_dir, path, input_file)
                                       ELSE output_dir
             /\ returned' = Append(returned, ok)
             /\ converted' = IF ok THEN converted + 1 ELSE converted
    /\ file_pos' = file_pos + 1
    /\ UNCHANGED <<input_dir, input_tree, dir_recursive, output_format, input_files,
                   dstep>>
    /\ UNCHANGED <<resizeVars, walkVars, mainVars>>

\* line 153: return success_count
ReturnCount ==
    /\ dstep = "loop"
    /\ file_pos > Len(input_files)
    /\ dstep' = "returned"
    /\ UNCHANGED <<input_dir, input_tree, dir_recursive, output_format, input_files,
                   file_pos, output_dir, returned, converted>>
    /\ UNCHANGED <<resizeVars, walkVars, mainVars>>

NextDir == ListDirectory \/ ConvertFile \/ ReturnCount

SpecDir == InitDir /\ [][NextDir]_vars

(***************************************************************************)
(* Spec: one run of optimized_image_sender.main. The environment decides   *)
(* what the files hold, whether a write succeeds and how the endpoint      *)
(* answers; main itself is sequential, and pc is its position.             *)
(***************************************************************************)
Init ==
    /\ pc = "start"
    /\ DEFAULT_API_KEY \in {"", "K"}
    /\ args = [api_key |-> "", save_optimized |-> FALSE, save_response |-> "",
               include_base64 |-> FALSE]
    /\ api_key = "" /\ heap = [o \in {0} |-> Dict(EmptyDict)] /\ md_ref = 0
    /\ metadata_loaded = FALSE /\ enumerated = FALSE /\ input_is_dir = FALSE
    /\ image_files = <<>> /\ idx = 1 /\ success_count = 0 /\ error_count = 0
    /\ exit_code = -1 /\ optimized = <<>> /\ requests = <<>> /\ outcome = NoOutcome
    /\ response = None /\ written = {} /\ verdicts = <<>>
    /\ ResizeIdle
    /\ WalkIdle
    /\ DirIdle

\* args = parse_args()
ParseArgs ==
    /\ pc = "start"
    /\ \E k \in {"", "K"}, so \in BOOLEAN, sr \in {"", "dir", "out.json"}, ib \in BOOLEAN :
           args' = [api_key |-> k, save_optimized |-> so, save_response |-> sr,
                    include_base64 |-> ib]
    /\ pc' = "config"
    /\ UNCHANGED <<DEFAULT_API_KEY, api_key, heap, md_ref, metadata_loaded, enumerated,
                   input_is_dir, image_files, idx, success_count, error_count,
                   exit_code, optimized, requests, outcome, response, written,
                   verdicts>>
    /\ UNCHANGED <<resizeVars, walkVars, dirVars>>

\* api_key = args.api_key or DEFAULT_API_KEY; without one, sys.exit(1)
CheckApiKey ==
    /\ pc = "config"
    /\ api_key' = str_or(args.api_key, DEFAULT_API_KEY)
    /\ IF key_missing(api_key')
       THEN pc' = "exited" /\ exit_code' = 1
       ELSE pc' = "load" /\ UNCHANGED exit_code
    /\ UNCHANGED <<DEFAULT_API_KEY, args, heap, md_ref, metadata_loaded, enumerated,
                   input_is_dir, image_files, idx, success_count, error_count,
                   optimized, requests, outcome, response, written, verdicts>>
    /\ UNCHANGED <<resizeVars, walkVars, dirVars>>

\* metadata = load_metadata(args.metadata)
LoadMetadata ==
    /\ pc = "load"
    /\ \E f \in MetadataFiles : heap' = [o \in {0} |-> load_metadata(f)]
    /\ metadata_loaded' = TRUE
    /\ pc' = "enumerate"
    /\ UNCHANGED <<DEFAULT_API_KEY, args, api_key, md_ref, enumerated, input_is_dir,
                   image_files, idx, success_count, error_count, exit_code, optimized,
                   requests, outcome, response, written, verdicts>>
    /\ UNCHANGED <<resizeVars, walkVars, dirVars>>

\* a directory is walked, and the run ends with status 1 when it holds no image;
\* anything else is taken as the one file to process
EnumerateInput ==
    /\ pc = "enumerate"
    /\ \E r \in Roots, t \in Trees(MainUniverse, MaxBatch), rec \in BOOLEAN :
         \E order \in Listings(listed(IF r.kind = "dir" THEN t ELSE {}, rec)) :
           /\ input_is_dir' = (r.kind = "dir")
           /\ image_files' = IF r.kind = "dir" THEN get_image_files(r, order)
                             ELSE <<(<<r.name>>)>>
    /\ enumerated' = TRUE
    /\ IF input_is_dir' /\ image_files' = <<>>
       THEN pc' = "exited" /\ exit_code' = 1
       ELSE pc' = "loop" /\ UNCHANGED exit_code
    /\ idx' = 1 /\ success_count' = 0 /\ error_count' = 0
    /\ UNCHANGED <<DEFAULT_API_KEY, args, api_key, heap, md_ref, metadata_loaded,
                   optimized, requests, outcome, response, written, verdicts>>
    /\ UNCHANGED <<resizeVars, walkVars, dirVars>>

\* process_image returns v to main's loop, which counts it and moves on; the
\* metadata object of the call is dropped
Return(v) ==
    /\ verdicts' = Append(verdicts, v)
    /\ success_count' = IF v THEN success_count + 1 ELSE success_count
    /\ error_count' = IF v THEN error_count ELSE error_count + 1
    /\ idx' = idx + 1
    /\ pc' = "loop"
    /\ md_ref' = 0
    /\ response' = None

DropCopy(h) == [o \in {0} |-> h[0]]

\* the for loop takes the next file: process_image(image_file, ..., metadata.copy(), ...)
\* up to its metadata.update of the file's name and format. json.load may have
\* returned something that is no dictionary: the call then raises, nothing catches it
\* and the interpreter ends the process with status 1.
BeginImage ==
    /\ pc = "loop"
    /\ idx <= Len(image_files)
    /\ outcome' = NoOutcome
    /\ IF heap[0].t # "dict"
       THEN /\ pc' = "crashed" /\ exit_code' = 1
            /\ UNCHANGED <<heap, md_ref>>
       ELSE LET ref == metadata_copy(idx)
                p == image_files[idx]
                fresh == dict_update(heap[0].d,
                            [filename |-> Value("name", p, ""),
                             original_format |->
                                 Value("format", p,
                                       LowerWord(LStripDot(path_suffix(p))))])
            IN /\ heap' = [o \in {0, ref} |-> IF o = ref THEN Dict(fresh) ELSE heap[o]]
               /\ md_ref' = ref
               /\ pc' = "optimize"
               /\ UNCHANGED exit_code
    /\ UNCHANGED <<DEFAULT_API_KEY, args, api_key, metadata_loaded, enumerated,
                   input_is_dir, image_files, idx, success_count, error_count,
                   optimized, requests, response, written, verdicts>>
    /\ UNCHANGED <<resizeVars, walkVars, dirVars>>

\* a variant that goes on without image data
image_check_skipped(ok) == FALSE

\* if not image_data: optimize_image_memory returned (None, None)
image_missing(ok) == ~ok

\* image_data, _ = optimize_image_memory(...); if not image_data: return False
OptimizeImage ==
    /\ pc = "optimize"
    /\ \E ok \in BOOLEAN :
         /\ optimized' = Append(optimized, [file |-> idx, ok |-> ok])
         /\ IF image_missing(ok)
            THEN /\ Return(FALSE)
                 /\ heap' = DropCopy(heap)
            ELSE /\ pc' = IF args.save_optimized THEN "save" ELSE "send"
                 /\ UNCHANGED <<heap, md_ref, idx, success_count, error_count,
                                response, verdicts>>
    /\ UNCHANGED <<DEFAULT_API_KEY, args, api_key, metadata_loaded, enumerated,
                   input_is_dir, image_files, exit_code, requests, outcome, written>>
    /\ UNCHANGED <<resizeVars, walkVars, dirVars>>

\* if save_optimized_dir: save_optimized_image(...), whose path goes to the metadata
SaveOptimized ==
    /\ pc = "save"
    /\ \E ok \in BOOLEAN :
         LET path == saved_path(ok, image_files[idx])
         IN IF path # None
            THEN /\ written' = written \cup {path}
                 /\ heap' = [heap EXCEPT ![md_ref] =
                               Dict(dict_update(heap[md_ref].d,
                                   [optimized_path |-> Value("saved", image_files[idx], "")]))]
            ELSE UNCHANGED <<written, heap>>
    /\ pc' = "send"
    /\ UNCHANGED <<DEFAULT_API_KEY, args, api_key, md_ref, metadata_loaded, enumerated,
                   input_is_dir, image_files, idx, success_count, error_count,
                   exit_code, optimized, requests, outcome, response, verdicts>>
    /\ UNCHANGED <<resizeVars, walkVars, dirVars>>

\* base64, the optional image_base64 entry, send_to_api and the test of its result
SendImage ==
    /\ pc = "send"
    /\ LET md == IF args.include_base64
                 THEN dict_update(heap[md_ref].d,
                          [image_base64 |-> Value("b64", image_files[idx], "")])
                 ELSE heap[md_ref].d
       IN /\ requests' = Append(requests,
                             [file |-> idx, metadata |-> md, api_key |-> api_key])
          /\ \E o \in Outcomes :
               /\ outcome' = o
               /\ IF send_to_api(o) = Raised
                  THEN /\ pc' = "crashed" /\ exit_code' = 1
                       /\ heap' = [heap EXCEPT ![md_ref] = Dict(md)]
                       /\ UNCHANGED <<md_ref, idx, success_count, error_count,
                                      verdicts, response>>
                  ELSE IF upload_ok(send_to_api(o))
                  THEN IF args.save_response # ""
                       THEN /\ response' = send_to_api(o)
                            /\ pc' = "saveresp"
                            /\ heap' = [heap EXCEPT ![md_ref] = Dict(md)]
                            /\ UNCHANGED <<md_ref, idx, success_count, error_count,
                                           verdicts>>
                       ELSE /\ Return(TRUE)
                            /\ heap' = DropCopy([heap EXCEPT ![md_ref] = Dict(md)])
                  ELSE /\ Return(FALSE)
                       /\ heap' = DropCopy([heap EXCEPT ![md_ref] = Dict(md)])
               /\ IF send_to_api(o) = Raised THEN TRUE ELSE UNCHANGED exit_code
    /\ UNCHANGED <<DEFAULT_API_KEY, args, api_key, metadata_loaded, enumerated,
                   input_is_dir, image_files, optimized, written>>
    /\ UNCHANGED <<resizeVars, walkVars, dirVars>>

\* if save_response_path: save_api_response(response, response_path); return True
SaveResponse ==
    /\ pc = "saveresp"
    /\ \E ok \in BOOLEAN :
         /\ written' = IF ok
                       THEN written \cup {response_path(args.save_response,
                                                        image_files[idx])}
                       ELSE written
         /\ Return(verdict_after_save(ok))
    /\ heap' = DropCopy(heap)
    /\ UNCHANGED <<DEFAULT_API_KEY, args, api_key, metadata_loaded, enumerated,
                   input_is_dir, image_files, exit_code, optimized, requests, outcome>>
    /\ UNCHANGED <<resizeVars, walkVars, dirVars>>

\* after the loop: the summary, and sys.exit(1) if error_count > 0
Finish ==
    /\ pc = "loop"
    /\ idx > Len(image_files)
    /\ exit_code' = exit_status(error_count)
    /\ pc' = "exited"
    /\ UNCHANGED <<DEFAULT_API_KEY, args, api_key, heap, md_ref, metadata_loaded,
                   enumerated, input_is_dir, image_files, idx, success_count,
                   error_count, optimized, requests, outcome, response, written,
                   verdicts>>
    /\ UNCHANGED <<resizeVars, walkVars, dirVars>>

Next ==
    \/ ParseArgs
    \/ CheckApiKey
    \/ LoadMetadata
    \/ EnumerateInput
    \/ BeginImage
    \/ OptimizeImage
    \/ SaveOptimized
    \/ SendImage
    \/ SaveResponse
    \/ Finish

Spec == Init /\ [][Next]_vars

(***************************************************************************)
(* The properties.                                                         *)
(***************************************************************************)
AnyFailed == \E i \in DOMAIN verdicts : ~verdicts[i]
NoImagesFound == api_key # "" /\ enumerated /\ input_is_dir /\ image_files = <<>>

\* C1 (as stated): a run of main that ends has exit status 1 exactly when the API key
\* is missing or some image failed, and 0 otherwise, an input directory without
\* images included.
C1_ExitCodeAsStated ==
    pc = "exited" => exit_code = IF api_key = "" \/ AnyFailed THEN 1 ELSE 0

\* C1 (amended): a run of main that ends has exit status 1 exactly when the API key is
\* missing, or the input is a directory in which no image file was found, or some
\* image failed; 0 otherwise.
C1_ExitCode ==
    pc = "exited" =>
        exit_code = IF api_key = "" \/ NoImagesFound \/ AnyFailed THEN 1 ELSE 0

C1_Witness ==
    pc = "exited" /\ exit_code = 1 /\ NoImagesFound /\ ~AnyFailed

\* the file the last POST was for
LastPosted == requests[Len(requests)].file

\* C2: an answer of status 200 with a body that parses as JSON, whatever the JSON
\* value, makes the upload a success: process_image returns True, or is on its way to
\* the response save with that response.
C2_Status200IsSuccess ==
    (outcome.status = 200 /\ outcome.body # Invalid) =>
        IF Len(verdicts) >= LastPosted
        THEN verdicts[LastPosted] /\ success_count >= 1
        ELSE pc = "saveresp" /\ response = outcome.body

\* C3: an upload answered with 401, 403 or another status that is not 200, or ended by
\* an exception, is a failure of that image and of nothing else: no exception leaves
\* send_to_api, process_image returns False, the image is counted as failed, main is
\* back in its loop at the next file, and a run that ends has a verdict for every file.
C3_FailedUploadCounted ==
    /\ (outcome # NoOutcome /\ outcome.status # 200) =>
          /\ pc \in {"loop", "exited"}
          /\ Len(verdicts) = LastPosted
          /\ ~verdicts[LastPosted]
          /\ error_count >= 1
          /\ idx = LastPosted + 1
    /\ (pc = "exited" /\ image_files # <<>>) =>
          /\ Len(verdicts) = Len(image_files)
          /\ success_count + error_count = Len(image_files)

C3_Witness ==
    /\ pc = "loop" /\ idx = 2 /\ Len(image_files) = 2
    /\ outcome.status = 401 /\ verdicts = <<FALSE>>

\* C4: with no key from --api-key and none from API_KEY, the run ends with status 1
\* at the key check: no metadata is loaded, no input is enumerated or optimized, no
\* file is written and no request is issued.
C4_NoKeyNoProcessing ==
    (pc # "start" /\ args.api_key = "" /\ DEFAULT_API_KEY = "") =>
        /\ pc \in {"config", "exited"}
        /\ pc = "exited" => exit_code = 1
        /\ ~metadata_loaded /\ ~enumerated
        /\ image_files = <<>> /\ optimized = <<>>
        /\ written = {} /\ requests = <<>>

C4_Witness ==
    pc = "exited" /\ exit_code = 1 /\ args.api_key = "" /\ DEFAULT_API_KEY = ""

\* C5: when the source exceeds max_dimension, the long side of the target (the width
\* when both sides are equal) is max_dimension and the short side is
\* floor(short * max_dimension / long).
C5_ScaledToFloor ==
    (rstep = "resized" /\ (width > max_dimension \/ height > max_dimension)) =>
        new_size = IF width >= height
                   THEN <<max_dimension, (height * max_dimension) \div width>>
                   ELSE <<(width * max_dimension) \div height, max_dimension>>

\* C6: a source with both sides within max_dimension keeps its size and is not
\* resized; so the output of one run, optimized again with the same max_dimension,
\* keeps its size.
C6_NoUpscale ==
    /\ (rstep \in {"resized", "reoptimized"}
            /\ width <= max_dimension /\ height <= max_dimension) =>
          new_size = <<width, height>> /\ ~did_resize
    /\ rstep = "reoptimized" => new_size = <<width, height>> /\ ~did_resize

C6_Witness ==
    /\ rstep = "reoptimized" /\ width = max_dimension /\ height < width
    /\ new_size = <<width, height>>

\* C7: the size resize_image computes is the size of an image: both sides are at
\* least 1, and at most max_dimension when it resizes.
C7_ValidSize ==
    rstep = "resized" =>
        /\ new_size[1] >= 1 /\ new_size[2] >= 1
        /\ did_resize => new_size[1] <= max_dimension /\ new_size[2] <= max_dimension

FileKeys == {"filename", "original_format", "optimized_path", "image_base64"}

\* C8: the metadata sent for a file holds the caller's entries and entries derived
\* from that file, nothing written for an earlier file; main's own metadata object is
\* what load_metadata returned, whatever was processed.
C8_MetadataIndependent ==
    /\ heap[0] \in {Dict(d) : d \in CallerDicts} \cup {NotADict}
    /\ \A i \in DOMAIN requests :
          LET md == requests[i].metadata
              p == image_files[requests[i].file]
          IN /\ DOMAIN md \subseteq DOMAIN heap[0].d \cup FileKeys
             /\ md["filename"].src = "name"
             /\ \A k \in DOMAIN md :
                   IF md[k].src = "caller"
                   THEN k \in DOMAIN heap[0].d /\ heap[0].d[k] = md[k]
                   ELSE k \in FileKeys /\ md[k].of = p

C8_Witness ==
    /\ Len(requests) = 2
    /\ "optimized_path" \in DOMAIN requests[1].metadata
    /\ "optimized_path" \notin DOMAIN requests[2].metadata
    /\ "tag" \in DOMAIN requests[2].metadata

ImagePaths == {<<1>>, <<2>>, <<4, 2>>, <<6, 1>>, <<6, 5>>}
Expected == {p \in tree \cap ImagePaths : recursive \/ Len(p) = 1}
Range(seq) == {seq[i] : i \in DOMAIN seq}
IsAscending(seq) == \A i \in 1..(Len(seq) - 1) : PathLess(seq[i], seq[i + 1])
WalkOfDirectory ==
    root.kind = "dir" => Range(files) = Expected /\ IsAscending(files)

\* C10 (as stated): get_image_files of either script returns the supported image
\* files directly under the root, or anywhere beneath it when recursive, without
\* duplicates and in ascending path order; nothing for a root that does not exist; the
\* root itself for a root that is a supported image file.
C10_WalkAsStated ==
    wstep \in {"converter", "sender"} =>
        /\ WalkOfDirectory
        /\ root.kind = "missing" => files = <<>>
        /\ (root.kind = "file" /\ root.name = 7) => files = <<(<<7>>)>>

\* C10 (amended): as stated for a directory and for a root that does not exist; for a
\* root that is a supported image file, optimized_image_sender.get_image_files
\* returns the root itself and anthropic_image_converter.get_image_files returns
\* nothing; a root that is any other file yields nothing.
C10_Walk ==
    wstep \in {"converter", "sender"} =>
        /\ WalkOfDirectory
        /\ root.kind = "missing" => files = <<>>
        /\ root.kind = "file" =>
              files = IF wstep = "sender" /\ root.name = 7 THEN <<(<<7>>)>> ELSE <<>>

C10_Witness ==
    /\ wstep = "sender" /\ root.kind = "dir" /\ recursive
    /\ files = <<(<<2>>), <<6, 1>>, <<6, 5>>>>

\* C11: after process_directory finishes a batch in which every optimize_image
\* call succeeded, no two distinct source files were written to the same
\* output path, and the output directory holds one file for each source
\* image: the file at the path that mirrors the source, written from it.
C11_OneFilePerSource ==
    (dstep = "returned" /\ \A i \in 1..Len(returned) : returned[i])
        => /\ \A i, j \in 1..Len(input_files) :
                  i # j => output_file(input_files[i], output_format)
                              # output_file(input_files[j], output_format)
           /\ Cardinality(output_dir) = Len(input_files)
           /\ \A i \in 1..Len(input_files) :
                  [path |-> output_file(input_files[i], output_format),
                   source |-> input_files[i]] \in output_dir

\* the POSTs issued for the k-th file of the list
Posts(k) == {i \in 1..Len(requests) : requests[i].file = k}

====
